---- MODULE Spec2Model ----
(***************************************************************************)
(* A model of ap_solvers/sqp.py: the Sqp object, its solve() loop and the  *)
(* helpers the loop calls.  mpmath's mp numbers are modelled as exact      *)
(* rationals over arbitrary-size integers, so that the thirty trial steps  *)
(* of the line search (alpha = 1 ... 2^-29) are computed as written.       *)
(* A value the code names once and reads several times is an operator      *)
(* parameter here: the operator that computes it passes it on.             *)
(***************************************************************************)
EXTENDS Integers, Sequences, FiniteSets, TLC

(***************************************************************************)
(* Natural numbers of any size: little-endian digits to the base 2^15, no  *)
(* leading zero digit; zero is the empty sequence.                         *)
(***************************************************************************)
Base == 32768

BnZero == << >>

BnOne == << 1 >>

Dig(a, i) == IF i <= Len(a) THEN a[i] ELSE 0

RECURSIVE BnNorm(_)
BnNorm(a) ==
  IF a = << >> THEN a
  ELSE IF a[Len(a)] = 0 THEN BnNorm(SubSeq(a, 1, Len(a) - 1))
  ELSE a

RECURSIVE BnFromNat(_)
BnFromNat(k) == IF k = 0 THEN << >> ELSE << k % Base >> \o BnFromNat(k \div Base)

RECURSIVE BnCmpAt(_, _, _)
BnCmpAt(a, b, i) ==
  IF i = 0 THEN 0
  ELSE IF a[i] < b[i] THEN -1
  ELSE IF a[i] > b[i] THEN 1
  ELSE BnCmpAt(a, b, i - 1)

BnCmp(a, b) ==
  IF Len(a) < Len(b) THEN -1
  ELSE IF Len(a) > Len(b) THEN 1
  ELSE BnCmpAt(a, b, Len(a))

RECURSIVE BnAddFrom(_, _, _, _)
BnAddFrom(a, b, i, c) ==
  IF i > Len(a) /\ i > Len(b)
  THEN (IF c = 0 THEN << >> ELSE << c >>)
  ELSE << (Dig(a, i) + Dig(b, i) + c) % Base >>
       \o BnAddFrom(a, b, i + 1, (Dig(a, i) + Dig(b, i) + c) \div Base)

BnAdd(a, b) == BnAddFrom(a, b, 1, 0)

RECURSIVE BnSubFrom(_, _, _, _)
BnSubFrom(a, b, i, c) ==
  IF i > Len(a) THEN << >>
  ELSE IF a[i] - Dig(b, i) - c < 0
  THEN << a[i] - Dig(b, i) - c + Base >> \o BnSubFrom(a, b, i + 1, 1)
  ELSE << a[i] - Dig(b, i) - c >> \o BnSubFrom(a, b, i + 1, 0)

\* a - b for a >= b
BnSub(a, b) == BnNorm(BnSubFrom(a, b, 1, 0))

RECURSIVE BnMulSmallFrom(_, _, _, _)
BnMulSmallFrom(a, d, i, c) ==
  IF i > Len(a)
  THEN (IF c = 0 THEN << >> ELSE << c >>)
  ELSE << (a[i] * d + c) % Base >> \o BnMulSmallFrom(a, d, i + 1, (a[i] * d + c) \div Base)

\* a * d for a digit d
BnMulSmall(a, d) == IF d = 0 THEN << >> ELSE BnMulSmallFrom(a, d, 1, 0)

BnShiftDigits(a, k) == IF a = << >> THEN a ELSE [i \in 1..k |-> 0] \o a

RECURSIVE BnMul(_, _)
BnMul(a, b) ==
  IF a = << >> \/ b = << >> THEN << >>
  ELSE BnAdd(BnMulSmall(a, Head(b)), BnShiftDigits(BnMul(a, Tail(b)), 1))

RECURSIVE BnDivSmallAt(_, _, _, _)
\* the quotient digits i..1 (little-endian) of a by the digit d, r the remainder so far
BnDivSmallAt(a, d, i, r) ==
  IF i = 0 THEN << >>
  ELSE BnDivSmallAt(a, d, i - 1, (r * Base + a[i]) % d) \o << (r * Base + a[i]) \div d >>

BnDivSmall(a, d) == BnNorm(BnDivSmallAt(a, d, Len(a), 0))

RECURSIVE BnModSmallAt(_, _, _, _)
BnModSmallAt(a, d, i, r) ==
  IF i = 0 THEN r ELSE BnModSmallAt(a, d, i - 1, (r * Base + a[i]) % d)

BnModSmall(a, d) == BnModSmallAt(a, d, Len(a), 0)

RECURSIVE Pow2(_)
Pow2(k) == IF k = 0 THEN 1 ELSE 2 * Pow2(k - 1)

RECURSIVE TzInt(_)
\* the number of trailing zero bits of the integer d > 0
TzInt(d) == IF d % 2 = 1 THEN 0 ELSE 1 + TzInt(d \div 2)

RECURSIVE BnTz(_)
\* the number of trailing zero bits of a > 0
BnTz(a) == IF Head(a) = 0 THEN 15 + BnTz(Tail(a)) ELSE TzInt(Head(a))

BnDropDigits(a, n) == IF n >= Len(a) THEN << >> ELSE SubSeq(a, n + 1, Len(a))

\* a / 2^k, rounded down
BnShr(a, k) ==
  IF k % 15 = 0 THEN BnDropDigits(a, k \div 15)
  ELSE BnDivSmall(BnDropDigits(a, k \div 15), Pow2(k % 15))

RECURSIVE GcdInt(_, _)
\* Euclid's algorithm on integers
GcdInt(a, b) == IF b = 0 THEN a ELSE GcdInt(b, a % b)

(***************************************************************************)
(* mp numbers: exact rationals s * n / d, s the sign, n and d > 0.  Powers *)
(* of two are always cancelled, and so is every common factor when the odd *)
(* part of d is a single digit, so that a fraction with such a denominator *)
(* (every dyadic one) has one representation.  Other fractions may have    *)
(* several; REq compares the numbers.                                      *)
(***************************************************************************)
RZero == [s |-> 0, n |-> BnZero, d |-> BnOne]

\* g the common factor of n1 and d1
RReduce(s, n1, d1, g) ==
  IF g = 1 THEN [s |-> s, n |-> n1, d |-> d1]
  ELSE [s |-> s, n |-> BnDivSmall(n1, g), d |-> BnDivSmall(d1, g)]

\* od the odd part of d1
RCancel(s, n1, d1, od) ==
  IF od = BnOne \/ Len(od) > 1 THEN [s |-> s, n |-> n1, d |-> d1]
  ELSE RReduce(s, n1, d1, GcdInt(od[1], BnModSmall(n1, od[1])))

\* t the number of trailing zero bits n and d share, td that of d
RShift(s, n, d, t, td) == RCancel(s, BnShr(n, t), BnShr(d, t), BnShr(d, td))

RTrailing(s, n, d, tn, td) == RShift(s, n, d, IF tn < td THEN tn ELSE td, td)

RMake(s, n, d) ==
  IF n = << >> \/ s = 0 THEN RZero ELSE RTrailing(s, n, d, BnTz(n), BnTz(d))

\* the integer k
R(k) ==
  IF k = 0 THEN RZero
  ELSE IF k < 0 THEN [s |-> -1, n |-> BnFromNat(-k), d |-> BnOne]
  ELSE [s |-> 1, n |-> BnFromNat(k), d |-> BnOne]

\* the fraction p / q of integers, q > 0
Frac(p, q) == RMake(IF p < 0 THEN -1 ELSE 1, BnFromNat(IF p < 0 THEN -p ELSE p), BnFromNat(q))

ROne == R(1)

RNeg(a) == [s |-> -a.s, n |-> a.n, d |-> a.d]

RAbs(a) == [s |-> a.s * a.s, n |-> a.n, d |-> a.d]

\* -1, 0, 1 as a < b, a = b, a > b
RCmp(a, b) ==
  IF a.s # b.s THEN (IF a.s < b.s THEN -1 ELSE 1)
  ELSE a.s * BnCmp(BnMul(a.n, b.d), BnMul(b.n, a.d))

REq(a, b) == RCmp(a, b) = 0

RLt(a, b) == RCmp(a, b) < 0

RLe(a, b) == RCmp(a, b) <= 0

RMax(a, b) == IF RLt(a, b) THEN b ELSE a

VEq(u, v) == Len(u) = Len(v) /\ \A i \in 1..Len(u) : REq(u[i], v[i])

MEq(A, B) == Len(A) = Len(B) /\ \A i \in 1..Len(A) : VEq(A[i], B[i])

\* sa * x / d + sb * y / d, c comparing x with y
RAddAligned(sa, x, sb, y, d, c) ==
  RMake(IF sa = sb \/ c > 0 THEN sa ELSE sb,
        IF sa = sb THEN BnAdd(x, y) ELSE IF c > 0 THEN BnSub(x, y) ELSE IF c < 0 THEN BnSub(y, x) ELSE BnZero,
        d)

RAddOver(sa, x, sb, y, d) == RAddAligned(sa, x, sb, y, d, BnCmp(x, y))

RAdd(a, b) ==
  IF a.s = 0 THEN b
  ELSE IF b.s = 0 THEN a
  ELSE RAddOver(a.s, IF a.d = b.d THEN a.n ELSE BnMul(a.n, b.d),
                b.s, IF a.d = b.d THEN b.n ELSE BnMul(b.n, a.d),
                IF a.d = b.d THEN a.d ELSE BnMul(a.d, b.d))

RSub(a, b) == RAdd(a, RNeg(b))

RMul(a, b) ==
  IF a.s = 0 \/ b.s = 0 THEN RZero
  ELSE RMake(a.s * b.s, BnMul(a.n, b.n), BnMul(a.d, b.d))

\* a / b; mpmath raises ZeroDivisionError for b = 0, and the value returned here
\* for it is no number, so that no use of it goes unnoticed
RDiv(a, b) ==
  IF b.s = 0 THEN "ZeroDivisionError"
  ELSE IF a.s = 0 THEN RZero
  ELSE RMake(a.s * b.s, BnMul(a.n, b.d), BnMul(a.d, b.n))

(***************************************************************************)
(* Vectors are sequences of numbers, matrices sequences of rows.           *)
(***************************************************************************)
ZeroVec(k) == [i \in 1..k |-> RZero]

Identity(n) == [i \in 1..n |-> [j \in 1..n |-> IF i = j THEN ROne ELSE RZero]]

VAdd(u, v) == [i \in 1..Len(u) |-> RAdd(u[i], v[i])]

VNeg(u) == [i \in 1..Len(u) |-> RNeg(u[i])]

VSub(u, v) == VAdd(u, VNeg(v))

VScale(c, v) == [i \in 1..Len(v) |-> RMul(c, v[i])]

VHadamard(u, v) == [i \in 1..Len(u) |-> RMul(u[i], v[i])]

RECURSIVE SumFrom(_, _)
SumFrom(v, i) == IF i > Len(v) THEN RZero ELSE RAdd(v[i], SumFrom(v, i + 1))

Sum(v) == SumFrom(v, 1)

Dot(u, v) == Sum(VHadamard(u, v))

MatVec(M, v) == [i \in 1..Len(M) |-> Dot(M[i], v)]

\* M.T, M with n columns
Transpose(M, n) == [j \in 1..n |-> [i \in 1..Len(M) |-> M[i][j]]]

MatTVec(M, v, n) == MatVec(Transpose(M, n), v)

Outer(u, v) == [i \in 1..Len(u) |-> VScale(u[i], v)]

MAdd(A, B) == [i \in 1..Len(A) |-> VAdd(A[i], B[i])]

MSub(A, B) == [i \in 1..Len(A) |-> VSub(A[i], B[i])]

MDivScalar(A, c) == [i \in 1..Len(A) |-> [j \in 1..Len(A[i]) |-> RDiv(A[i][j], c)]]

RECURSIVE MaxFrom(_, _)
MaxFrom(v, i) == IF i = Len(v) THEN v[i] ELSE RMax(v[i], MaxFrom(v, i + 1))

\* Python's max(v); it raises ValueError for an empty v, so callers test for that
MaxOf(v) == MaxFrom(v, 1)

MinOf(v) == RNeg(MaxOf(VNeg(v)))

(***************************************************************************)
(* The problem given to Sqp.__init__: minimize f(x) s.t. c_j(x) >= 0.  The *)
(* callables are drawn from quadratics with integer coefficients; callable *)
(* 0 is f and callable j >= 1 is cs[j]:                                    *)
(*   callable k at x = sum_i q[k][i] x_i^2 + l[k][i] x_i + c0[k]           *)
(* grads[k] says whether the analytic gradient of callable k was supplied  *)
(* (f_grad, c_grads[j]).  Indices 0..m are stored at positions 1..m+1.     *)
(***************************************************************************)
NumCs(p) == Len(p.c0) - 1

Value(p, k, x) ==
  RAdd(Sum([i \in 1..p.n |-> RAdd(RMul(R(p.q[k + 1][i]), RMul(x[i], x[i])),
                                  RMul(R(p.l[k + 1][i]), x[i]))]),
       R(p.c0[k + 1]))

F(p, x) == Value(p, 0, x)

evaluate_constraints(p, x) == [j \in 1..NumCs(p) |-> Value(p, j, x)]

GradSupplied(p, k, x) ==
  [i \in 1..p.n |-> RAdd(RMul(R(2 * p.q[k + 1][i]), x[i]), R(p.l[k + 1][i]))]

\* central differences of callable k with step h = tol
finite_difference_grad(p, k, x, h) ==
  [i \in 1..Len(x) |->
     RDiv(RSub(Value(p, k, [x EXCEPT ![i] = RAdd(x[i], h)]),
               Value(p, k, [x EXCEPT ![i] = RSub(x[i], h)])),
          RMul(R(2), h))]

Grad(p, k, x) ==
  IF p.grads[k + 1] THEN GradSupplied(p, k, x) ELSE finite_difference_grad(p, k, x, p.tol)

\* gradient of f in row 1, of cs[j] in row j + 1
Grads(p, x) == [k \in 1..NumCs(p) + 1 |-> Grad(p, k - 1, x)]

(***************************************************************************)
(* The gradient cache: x_used_for_gradient_computation, f_grad_k and       *)
(* jacobian_k as one record; valid is FALSE while x_used_... is None.      *)
(***************************************************************************)
None == "None"

EmptyCache == [valid |-> FALSE, x |-> None, f_grad_k |-> None, jacobian_k |-> None]

\* a cache that is never refreshed once it is filled
CacheFilled(c, x) == c.valid

CacheHit(c, x) == c.valid /\ VEq(x, c.x)

StoreGradients(x, g) ==
  [valid |-> TRUE, x |-> x, f_grad_k |-> g[1], jacobian_k |-> Tail(g)]

compute_gradients(p, c, x) == IF CacheHit(c, x) THEN c ELSE StoreGradients(x, Grads(p, x))

(***************************************************************************)
(* Sqp._solve_identity_hessian_single_constraint_positive_problem          *)
(***************************************************************************)
\* the sum of squares without the filter on the positive elements
AllSquares(a) == Sum([i \in 1..Len(a) |-> RMul(a[i], a[i])])

PositiveSquares(a) == Sum([i \in 1..Len(a) |-> IF a[i].s > 0 THEN RMul(a[i], a[i]) ELSE RZero])

\* max((b / ap_norm) * a_i, 0) for every i, c being b / ap_norm
ClipScaled(a, c) == [i \in 1..Len(a) |-> RMax(RMul(c, a[i]), RZero)]

\* b / 0 raises
ClipOrRaise(a, b, ap_norm) ==
  IF ap_norm.s = 0 THEN "ZeroDivisionError" ELSE ClipScaled(a, RDiv(b, ap_norm))

PositiveProblem(a, b) == ClipOrRaise(a, b, PositiveSquares(a))

solve_identity_hessian_single_constraint_positive_problem(a, b) ==
  PositiveProblem(IF b.s < 0 THEN VNeg(a) ELSE a, IF b.s < 0 THEN RNeg(b) ELSE b)

(***************************************************************************)
(* Sqp._update_rho                                                         *)
(***************************************************************************)
Half == Frac(1, 2)

Quad(Hm, v) == Dot(v, MatVec(Hm, v))

\* rhs = g' p_x + (pi_k - p_pi)' (c - s) - 0.5 p_x' H p_x
RhoRhs(g, Hm, cMinusS, pik, p_x, p_pi) ==
  RSub(RAdd(Dot(g, p_x), Dot(VSub(pik, p_pi), cMinusS)), RMul(Half, Quad(Hm, p_x)))

RhoUpdateApplies(cMinusS2, rhs) == rhs.s > 0 /\ MaxOf(cMinusS2).s > 0

\* an update that floors every component at its previous value
MergedRho(r, cMinusS2, rhs) ==
  IF RhoUpdateApplies(cMinusS2, rhs)
  THEN [j \in 1..Len(r) |->
          RMax(r[j], solve_identity_hessian_single_constraint_positive_problem(cMinusS2, rhs)[j])]
  ELSE r

NewRho(r, cMinusS2, rhs) ==
  IF RhoUpdateApplies(cMinusS2, rhs)
  THEN solve_identity_hessian_single_constraint_positive_problem(cMinusS2, rhs)
  ELSE r

\* c1 the cache after _compute_gradients(x_k)
RhoFrom(c1, Hm, r, cMinusS, pik, p_x, p_pi) ==
  [cache |-> c1,
   rho |-> NewRho(r, VHadamard(cMinusS, cMinusS),
                  RhoRhs(c1.f_grad_k, Hm, cMinusS, pik, p_x, p_pi))]

\* the cache and self.rho after the call
update_rho(p, c, Hm, r, xk, sk, pik, xh, pih) ==
  RhoFrom(compute_gradients(p, c, xk), Hm, r, VSub(evaluate_constraints(p, xk), sk),
          pik, VSub(xh, xk), VSub(pih, pik))

(***************************************************************************)
(* Sqp._line_search                                                        *)
(***************************************************************************)
LineSearchTrials == 30

\* fx = f(x), d = c(x) - s
Merit(fx, r, pi, d) ==
  RAdd(RSub(fx, Dot(pi, d)),
       Sum([j \in 1..Len(d) |-> RMul(RMul(Half, r[j]), RMul(d[j], d[j]))]))

merit_function(p, r, x, s, pi) == Merit(F(p, x), r, pi, VSub(evaluate_constraints(p, x), s))

\* (1 - alpha) * u + alpha * v
Combine(al, u, v) == VAdd(VScale(RSub(ROne, al), u), VScale(al, v))

\* acceptance without strict decrease
MeritNotIncreases(phi, m0) == RLe(phi, m0)

MeritDecreases(phi, m0) == RLt(phi, m0)

FirstAlpha == ROne

NextAlpha(al) == RDiv(al, R(2))

RECURSIVE LineSearchLoop(_, _, _, _, _, _, _, _, _, _, _)
RECURSIVE LineSearchTrial(_, _, _, _, _, _, _, _, _, _, _, _, _, _)
\* one pass of the loop body: x, s, pi the trial point
LineSearchTrial(p, r, xk, sk, pik, xh, sh, pih, m0, i, al, x, s, pi) ==
  IF MeritDecreases(merit_function(p, r, x, s, pi), m0)
  THEN [ok |-> TRUE, x |-> x, s |-> s, pi |-> pi, alpha |-> al, trials |-> i + 1]
  ELSE LineSearchLoop(p, r, xk, sk, pik, xh, sh, pih, m0, i + 1, NextAlpha(al))

\* the for loop, from trial i (0-based) with step length al
LineSearchLoop(p, r, xk, sk, pik, xh, sh, pih, m0, i, al) ==
  IF i >= LineSearchTrials THEN [ok |-> FALSE, trials |-> i]
  ELSE LineSearchTrial(p, r, xk, sk, pik, xh, sh, pih, m0, i, al,
                       Combine(al, xk, xh), Combine(al, sk, sh), Combine(al, pik, pih))

\* r is self.rho after _update_rho
line_search(p, r, xk, sk, pik, xh, sh, pih) ==
  LineSearchLoop(p, r, xk, sk, pik, xh, sh, pih,
                 merit_function(p, r, xk, sk, pik), 0, FirstAlpha)

(***************************************************************************)
(* Sqp._update_hessian_approximation                                       *)
(***************************************************************************)
Eta == Half

OmegaNormLimit == 1000000

PrimaryTest(yTdelta, sigma) == RLe(sigma, yTdelta)

CorrectionApplies(beta, a) ==
  IF beta.s > 0 THEN MaxOf(a).s > 0
  ELSE IF beta.s < 0 THEN MinOf(a).s < 0
  ELSE FALSE

OmegaAccepted(omega) == RLt(Dot(omega, omega), R(OmegaNormLimit))

\* what the tests leave: y, y'delta and which of them set perform_update
Secant(y, yTdelta, primary, corrected) ==
  [y |-> y, yTdelta |-> yTdelta, primary |-> primary, corrected |-> corrected]

ModifiedSecant(y2, delta) == Secant(y2, Dot(y2, delta), FALSE, TRUE)

ModifyWith(y, yTdelta, deltaJ, delta, w, omega, n) ==
  IF OmegaAccepted(omega)
  THEN ModifiedSecant(VAdd(y, MatTVec(deltaJ, VHadamard(omega, w), n)), delta)
  ELSE Secant(y, yTdelta, FALSE, FALSE)

SecondModification(y, yTdelta, deltaJ, delta, w, a, beta, n) ==
  IF CorrectionApplies(beta, a)
  THEN ModifyWith(y, yTdelta, deltaJ, delta, w,
                  solve_identity_hessian_single_constraint_positive_problem(a, beta), n)
  ELSE Secant(y, yTdelta, FALSE, FALSE)

ElasticA(deltaJ, delta, w) == VHadamard(MatVec(deltaJ, delta), w)

ElasticW(p, jacobian0, xa, xb, delta) ==
  VSub(VSub(evaluate_constraints(p, xb), evaluate_constraints(p, xa)), MatVec(jacobian0, delta))

TrySecondModification(y, yTdelta, deltaJ, delta, w, beta, n) ==
  SecondModification(y, yTdelta, deltaJ, delta, w, ElasticA(deltaJ, delta, w), beta, n)

ChooseSecant(p, jacobian0, xa, xb, delta, deltaJ, sigma, y, yTdelta) ==
  IF PrimaryTest(yTdelta, sigma) THEN Secant(y, yTdelta, TRUE, FALSE)
  ELSE TrySecondModification(y, yTdelta, deltaJ, delta,
                             ElasticW(p, jacobian0, xa, xb, delta),
                             RSub(sigma, yTdelta), p.n)

\* H + y y' / y'delta + q q' / q'delta; a zero denominator raises
RankTwo(Hm, y, yTdelta, q, qTdelta) ==
  IF yTdelta.s = 0 \/ qTdelta.s = 0
  THEN [raised |-> "ZeroDivisionError", H |-> Hm, qTdelta |-> qTdelta]
  ELSE [raised |-> None,
        H |-> MAdd(Hm, MAdd(MDivScalar(Outer(y, y), yTdelta),
                            MDivScalar(Outer(q, q), qTdelta))),
        qTdelta |-> qTdelta]

RankTwoUpdate(Hm, y, yTdelta, q, delta) == RankTwo(Hm, y, yTdelta, q, Dot(q, delta))

NoUpdate(Hm) == [raised |-> None, H |-> Hm, qTdelta |-> None]

HessianUpdate(Hm, delta, sec) ==
  IF sec.primary \/ sec.corrected
  THEN RankTwoUpdate(Hm, sec.y, sec.yTdelta, MatVec(Hm, delta), delta)
  ELSE NoUpdate(Hm)

HessianOutcome(c0, c1, sigma, yTdelta0, sec, upd) ==
  [cache |-> c1, H |-> upd.H, raised |-> upd.raised, snapshot_x |-> c0.x,
   primary |-> sec.primary, corrected |-> sec.corrected,
   perform_update |-> sec.primary \/ sec.corrected,
   sigma |-> sigma, yTdelta0 |-> yTdelta0, yTdelta |-> sec.yTdelta, qTdelta |-> upd.qTdelta]

HessianWith(c0, c1, Hm, delta, sigma, yTdelta0, sec) ==
  HessianOutcome(c0, c1, sigma, yTdelta0, sec, HessianUpdate(Hm, delta, sec))

HessianTests(p, c0, c1, Hm, xa, xb, delta, deltaJ, sigma, y, yTdelta) ==
  HessianWith(c0, c1, Hm, delta, sigma, yTdelta,
              ChooseSecant(p, c0.jacobian_k, xa, xb, delta, deltaJ, sigma, y, yTdelta))

HessianSecant(p, c0, c1, Hm, xa, xb, delta, deltaJ, sigma, y) ==
  HessianTests(p, c0, c1, Hm, xa, xb, delta, deltaJ, sigma, y, Dot(y, delta))

HessianDifferences(p, c0, c1, Hm, xa, xb, pi1, delta, deltaJ, sigma) ==
  HessianSecant(p, c0, c1, Hm, xa, xb, delta, deltaJ, sigma,
                VSub(VSub(c1.f_grad_k, c0.f_grad_k), MatTVec(deltaJ, pi1, p.n)))

\* c0 the cache as found (f_grad0, jacobian0), c1 after _compute_gradients(x1)
HessianGradients(p, c0, c1, Hm, xa, xb, xh, pi1, al) ==
  HessianDifferences(p, c0, c1, Hm, xa, xb, pi1, VSub(xb, xa),
                     MSub(c1.jacobian_k, c0.jacobian_k),
                     RMul(RMul(al, RSub(ROne, Eta)), Quad(Hm, VSub(xh, xa))))

\* xa, xb are the parameters x0, x1
update_hessian_approximation(p, c, Hm, xa, xb, xh, pi1, al) ==
  HessianGradients(p, c, compute_gradients(p, c, xb), Hm, xa, xb, xh, pi1, al)

(***************************************************************************)
(* Sqp._check_convergence                                                  *)
(***************************************************************************)
Tau(tol, v) == RMul(tol, RAdd(ROne, MaxOf(v)))

DualInfeasible(pi, tau_pi) == \E i \in 1..Len(pi) : RLt(pi[i], RNeg(tau_pi))

PrimalInfeasible(ci, tau_x) == RLt(ci, RNeg(tau_x))

NotComplementary(ci, pii, tau_pi) == RLt(tau_pi, RMul(ci, pii))

Residual(g, J, pi, n) == VSub(g, MatTVec(J, pi, n))

NotStationary(d, tau_pi) == \E i \in 1..Len(d) : RLt(tau_pi, RAbs(d[i]))

RECURSIVE ConvergenceLoop(_, _, _, _, _, _, _)
RECURSIVE ConvergenceStationarity(_, _, _, _, _, _, _)
RECURSIVE ConvergenceConstraint(_, _, _, _, _, _, _, _)

\* the end of the loop body: c1 the cache after _compute_gradients(x)
ConvergenceStationarity(p, c1, x, pi, tau_x, tau_pi, i) ==
  IF NotStationary(Residual(c1.f_grad_k, c1.jacobian_k, pi, p.n), tau_pi)
  THEN [result |-> FALSE, cache |-> c1]
  ELSE ConvergenceLoop(p, c1, x, pi, tau_x, tau_pi, i + 1)

\* the loop body for constraint i, ci its value
ConvergenceConstraint(p, c, x, pi, tau_x, tau_pi, i, ci) ==
  IF PrimalInfeasible(ci, tau_x) \/ NotComplementary(ci, pi[i], tau_pi)
  THEN [result |-> FALSE, cache |-> c]
  ELSE ConvergenceStationarity(p, compute_gradients(p, c, x), x, pi, tau_x, tau_pi, i)

\* the loop over the constraints, from constraint i
ConvergenceLoop(p, c, x, pi, tau_x, tau_pi, i) ==
  IF i > NumCs(p) THEN [result |-> TRUE, cache |-> c]
  ELSE ConvergenceConstraint(p, c, x, pi, tau_x, tau_pi, i, Value(p, i, x))

ConvergenceChecks(p, c, x, pi, tau_x, tau_pi) ==
  IF DualInfeasible(pi, tau_pi) THEN [result |-> FALSE, cache |-> c]
  ELSE ConvergenceLoop(p, c, x, pi, tau_x, tau_pi, 1)

\* for at least one constraint: max(pi) needs a non-empty pi
check_convergence(p, c, x, pi) ==
  ConvergenceChecks(p, c, x, pi, Tau(p.tol, x), Tau(p.tol, pi))

(***************************************************************************)
(* The Sqp object and one solve() call at a time.                          *)
(***************************************************************************)
VARIABLES
  prob,        \* f, f_grad, cs, c_grads, tol as given to __init__
  rho,         \* self.rho
  cache,       \* self.x_used_for_gradient_computation, f_grad_k, jacobian_k
  H,           \* self.hessian_approximation
  pc,          \* where solve() stands; "idle", "returned" or "failed" between calls
  x0, max_iter, iteration,
  x_k, s_k, pi_k,
  x_hat, s_hat, pi_hat,
  x_prev, s_prev, pi_prev,
  alpha,
  qp_res, qp_gap,   \* res and gap as returned by qp.solve_qp
  raised,      \* the exception that ended the last call, or None
  result,      \* what the last call returned, NoResult if nothing
  calls,       \* solve() calls begun on this object
  qp_solves,   \* qp.solve_qp calls made on this object
  rho_prev,    \* self.rho as _line_search found it
  H_prev,      \* self.hessian_approximation as _update_hessian_approximation found it
  hess,        \* what the last _update_hessian_approximation computed
  converged,   \* what the last _check_convergence of this call returned
  args, out    \* arguments and result of a helper called on its own

obj == << prob, rho, cache, H >>
locals == << x0, max_iter, iteration, x_k, s_k, pi_k, x_hat, s_hat, pi_hat,
             x_prev, s_prev, pi_prev, alpha, qp_res, qp_gap >>
ghost == << rho_prev, H_prev, hess, converged >>
vars == << obj, pc, locals, raised, result, calls, qp_solves, ghost, args, out >>

MaxCalls == 2
MaxQpSolves == 2
MaxIterArg == 2

\* minimize x^2 s.t. x - 1 >= 0, gradients supplied
ProblemA ==
  [n |-> 1, q |-> << << 1 >>, << 0 >> >>, l |-> << << 0 >>, << 1 >> >>, c0 |-> << 0, -1 >>,
   grads |-> << TRUE, TRUE >>, tol |-> ROne]

\* minimize x s.t. x^2 + x - 1 >= 0, gradients by finite differences
ProblemB ==
  [n |-> 1, q |-> << << 0 >>, << 1 >> >>, l |-> << << 1 >>, << 1 >> >>, c0 |-> << 0, -1 >>,
   grads |-> << FALSE, FALSE >>, tol |-> ROne]

Problems == { ProblemA, ProblemB }

\* the vector of length k with every entry the integer v
ConstVec(k, v) == [i \in 1..k |-> R(v)]

StartValues == { 0, 1 }
\* what the subsolver may answer: the step x - x_k, the slack s and the multiplier pi
QpAnswers == { << -1, 0, 0 >>, << -1, 1, 0 >>, << 0, 0, 0 >>, << 0, 0, 1 >>, << 1, 0, 1 >> }
\* res and gap as multiples of minor_tol
QpAccuracies == { << 0, 0 >>, << 1, 0 >>, << 0, 1 >> }

NoResult == << >>

NoHess == [done |-> FALSE]

Between == { "idle", "returned", "failed" }

Init ==
  /\ prob \in Problems
  /\ rho = ZeroVec(NumCs(prob))
  /\ cache = EmptyCache
  /\ H = None
  /\ pc = "idle"
  /\ x0 = None /\ max_iter = 0 /\ iteration = 0
  /\ x_k = None /\ s_k = None /\ pi_k = None
  /\ x_hat = None /\ s_hat = None /\ pi_hat = None
  /\ x_prev = None /\ s_prev = None /\ pi_prev = None
  /\ alpha = None /\ qp_res = None /\ qp_gap = None
  /\ raised = None /\ result = NoResult
  /\ calls = 0 /\ qp_solves = 0
  /\ rho_prev = None /\ H_prev = None /\ hess = NoHess /\ converged = "None"
  /\ args = None /\ out = None

minor_tol(p) == RDiv(p.tol, R(100))

\* the assert on res alone
QpResidualAccepted(res, gap, mt) == RLt(res, mt)

\* the two asserts of _solve_qp
QpAccepted(res, gap, mt) == RLt(res, mt) /\ RLt(gap, mt)

\* a loop that runs once more than range(max_iter)
LoopContinuesInclusive(it, mi) == it <= mi

\* range(max_iter) has another value
LoopContinues(it, mi) == it < mi

\* solve(), lines 27-34: H, x_k, s_k and pi_k are set up
StartSolve ==
  /\ pc \in Between
  /\ calls < MaxCalls
  /\ \E v \in StartValues, mi \in 0..MaxIterArg :
       /\ x0' = ConstVec(prob.n, v)
       /\ max_iter' = mi
       /\ x_k' = ConstVec(prob.n, v)
  /\ H' = Identity(prob.n)
  /\ s_k' = ZeroVec(NumCs(prob))
  /\ pi_k' = ZeroVec(NumCs(prob))
  /\ iteration' = 0
  /\ pc' = "loop"
  /\ calls' = calls + 1
  /\ raised' = None /\ result' = NoResult
  /\ x_hat' = None /\ s_hat' = None /\ pi_hat' = None
  /\ x_prev' = None /\ s_prev' = None /\ pi_prev' = None
  /\ alpha' = None /\ qp_res' = None /\ qp_gap' = None
  /\ rho_prev' = None /\ H_prev' = None /\ hess' = NoHess /\ converged' = "None"
  /\ UNCHANGED << prob, rho, cache, qp_solves, args, out >>

\* the loop's head and line 37
ComputeGradients ==
  /\ pc = "loop"
  /\ LoopContinues(iteration, max_iter)
  /\ cache' = compute_gradients(prob, cache, x_k)
  /\ pc' = "qp"
  /\ UNCHANGED << prob, rho, H, locals, raised, result, calls, qp_solves, ghost, args, out >>

\* line 38, _solve_qp: the subsolver's answer is any of a few, and the asserts
SolveQP ==
  /\ pc = "qp"
  /\ qp_solves < MaxQpSolves
  /\ qp_solves' = qp_solves + 1
  /\ cache' = compute_gradients(prob, cache, x_k)
  /\ \E ans \in QpAnswers, acc \in QpAccuracies :
       \E mt \in { minor_tol(prob) } :
         \E res \in { RMul(R(acc[1]), mt) }, gap \in { RMul(R(acc[2]), mt) } :
           \E ok \in { QpAccepted(res, gap, mt) } :
             /\ qp_res' = res
             /\ qp_gap' = gap
             /\ x_hat' = IF ok THEN VAdd(x_k, ConstVec(prob.n, ans[1])) ELSE None
             /\ s_hat' = IF ok THEN ConstVec(NumCs(prob), ans[2]) ELSE None
             /\ pi_hat' = IF ok THEN ConstVec(NumCs(prob), ans[3]) ELSE None
             /\ pc' = IF ok THEN "ls" ELSE "failed"
             /\ raised' = IF ok THEN None ELSE "AssertionError"
  /\ UNCHANGED << prob, rho, H, x0, max_iter, iteration, x_k, s_k, pi_k,
                  x_prev, s_prev, pi_prev, alpha, result, calls, ghost, args, out >>

\* lines 39-40, _line_search with its _update_rho
LineSearch ==
  /\ pc = "ls"
  /\ \E ur \in { update_rho(prob, cache, H, rho, x_k, s_k, pi_k, x_hat, pi_hat) } :
       \E ls \in { line_search(prob, ur.rho, x_k, s_k, pi_k, x_hat, s_hat, pi_hat) } :
         /\ cache' = ur.cache
         /\ rho' = ur.rho
         /\ rho_prev' = rho
         /\ x_prev' = x_k /\ s_prev' = s_k /\ pi_prev' = pi_k
         /\ x_k' = IF ls.ok THEN ls.x ELSE x_k
         /\ s_k' = IF ls.ok THEN ls.s ELSE s_k
         /\ pi_k' = IF ls.ok THEN ls.pi ELSE pi_k
         /\ alpha' = IF ls.ok THEN ls.alpha ELSE None
         /\ pc' = IF ls.ok THEN "hess" ELSE "failed"
         /\ raised' = IF ls.ok THEN None ELSE "ValueError"
  /\ UNCHANGED << prob, H, x0, max_iter, iteration, x_hat, s_hat, pi_hat, qp_res, qp_gap,
                  result, calls, qp_solves, H_prev, hess, converged, args, out >>

\* line 42, _update_hessian_approximation
UpdateHessian ==
  /\ pc = "hess"
  /\ \E u \in { update_hessian_approximation(prob, cache, H, x_prev, x_k, x_hat, pi_k, alpha) } :
       /\ cache' = u.cache
       /\ H' = u.H
       /\ H_prev' = H
       /\ hess' = [done |-> TRUE, raised |-> u.raised, snapshot_x |-> u.snapshot_x,
                   primary |-> u.primary, corrected |-> u.corrected,
                   perform_update |-> u.perform_update, sigma |-> u.sigma,
                   yTdelta0 |-> u.yTdelta0, yTdelta |-> u.yTdelta, qTdelta |-> u.qTdelta]
       /\ pc' = IF u.raised = None THEN "conv" ELSE "failed"
       /\ raised' = u.raised
  /\ UNCHANGED << prob, rho, locals, result, calls, qp_solves, rho_prev, converged, args, out >>

\* lines 44-49: the progress line, _check_convergence, and the break
CheckConvergence ==
  /\ pc = "conv"
  /\ \E cc \in { check_convergence(prob, cache, x_k, pi_k) } :
       /\ cache' = cc.cache
       /\ converged' = IF cc.result THEN "True" ELSE "False"
       /\ pc' = IF cc.result THEN "ret" ELSE "loop"
       /\ iteration' = IF cc.result THEN iteration ELSE iteration + 1
  /\ UNCHANGED << prob, rho, H, x0, max_iter, x_k, s_k, pi_k, x_hat, s_hat, pi_hat,
                  x_prev, s_prev, pi_prev, alpha, qp_res, qp_gap, raised, result,
                  calls, qp_solves, rho_prev, H_prev, hess, args, out >>

\* line 50
Return ==
  /\ pc = "ret" \/ (pc = "loop" /\ ~LoopContinues(iteration, max_iter))
  /\ result' = << x_k, F(prob, x_k), evaluate_constraints(prob, x_k) >>
  /\ pc' = "returned"
  /\ UNCHANGED << obj, locals, raised, calls, qp_solves, ghost, args, out >>

Next ==
  \/ StartSolve
  \/ ComputeGradients
  \/ SolveQP
  \/ LineSearch
  \/ UpdateHessian
  \/ CheckConvergence
  \/ Return

Spec == Init /\ [][Next]_vars


(***************************************************************************)
(* _solve_identity_hessian_single_constraint_positive_problem called on    *)
(* its own, on integer vectors a and integer b.                            *)
(***************************************************************************)
AuxLen == 2
AuxMaxEntry == 2
AuxMaxRhs == 3
AuxGrid == 6

AuxArgs == [a : [1..AuxLen -> -1..AuxMaxEntry], b : (-AuxMaxRhs..AuxMaxRhs) \ { 0 }]

AuxA == [i \in 1..AuxLen |-> R(args.a[i])]

AuxB == R(args.b)

InitAux ==
  /\ prob = ProblemA
  /\ rho = ZeroVec(NumCs(prob))
  /\ cache = EmptyCache
  /\ H = None
  /\ pc = "aux"
  /\ x0 = None /\ max_iter = 0 /\ iteration = 0
  /\ x_k = None /\ s_k = None /\ pi_k = None
  /\ x_hat = None /\ s_hat = None /\ pi_hat = None
  /\ x_prev = None /\ s_prev = None /\ pi_prev = None
  /\ alpha = None /\ qp_res = None /\ qp_gap = None
  /\ raised = None /\ result = NoResult
  /\ calls = 0 /\ qp_solves = 0
  /\ rho_prev = None /\ H_prev = None /\ hess = NoHess /\ converged = "None"
  /\ args \in AuxArgs
  /\ out = None

AuxSolve ==
  /\ pc = "aux"
  /\ out' = solve_identity_hessian_single_constraint_positive_problem(AuxA, AuxB)
  /\ pc' = "aux_done"
  /\ UNCHANGED << obj, locals, raised, result, calls, qp_solves, ghost, args >>

NextAux == AuxSolve

SpecAux == InitAux /\ [][NextAux]_vars

(***************************************************************************)
(* The line search as solve() leaves it: x_prev, s_prev, pi_prev are the   *)
(* point it started from and rho is self.rho after _update_rho.            *)
(***************************************************************************)
\* alpha in pass j of the loop, j = 0, 1, ...
TrialAlpha(j) == Frac(1, Pow2(j))

\* m0
StartMerit == merit_function(prob, rho, x_prev, s_prev, pi_prev)

\* phi at step length al
TrialMerit(al) ==
  merit_function(prob, rho, Combine(al, x_prev, x_hat), Combine(al, s_prev, s_hat),
                 Combine(al, pi_prev, pi_hat))

TrialRejected(j) == ~RLt(TrialMerit(TrialAlpha(j)), StartMerit)

\* C1: a line search that returned did so with the first alpha of 1, 1/2,
\* 1/4, ... whose merit is strictly below the merit at the starting point,
\* and with exactly the convex combination for that alpha; a line search
\* that raised had no strict decrease in any of its thirty trials and
\* handed no point to solve().
C1_FirstStrictDecrease ==
  /\ pc = "hess" =>
       /\ \E k \in 0..LineSearchTrials - 1 :
            /\ REq(alpha, TrialAlpha(k))
            /\ \A j \in 0..k - 1 : TrialRejected(j)
       /\ RLt(TrialMerit(alpha), StartMerit)
       /\ VEq(x_k, Combine(alpha, x_prev, x_hat))
       /\ VEq(s_k, Combine(alpha, s_prev, s_hat))
       /\ VEq(pi_k, Combine(alpha, pi_prev, pi_hat))
  /\ raised = "ValueError" =>
       /\ \A j \in 0..LineSearchTrials - 1 : TrialRejected(j)
       /\ pc = "failed"
       /\ VEq(x_k, x_prev) /\ VEq(s_k, s_prev) /\ VEq(pi_k, pi_prev)

\* a step accepted after the full step was rejected
C1_Witness == pc = "hess" /\ RLt(alpha, ROne) /\ TrialRejected(0)

(***************************************************************************)
(* Failures of solve().                                                    *)
(***************************************************************************)
QpWithinTolerance(res, gap) == RLt(res, minor_tol(prob)) /\ RLt(gap, minor_tol(prob))

C2_AbortState ==
  /\ pc \in { "ls", "hess", "conv", "ret" } => QpWithinTolerance(qp_res, qp_gap)
  /\ raised # None <=> pc = "failed"
  /\ pc = "failed" => result = NoResult

C2_AbortStep ==
  /\ pc = "failed" => pc' = "loop" /\ calls' = calls + 1 /\ iteration' = 0
  /\ (pc = "qp" /\ ~QpWithinTolerance(qp_res', qp_gap')) =>
       /\ pc' = "failed" /\ raised' = "AssertionError"
       /\ UNCHANGED << x_k, s_k, pi_k, rho, H, iteration, result >>
  /\ (pc = "qp" /\ pc' = "failed") => ~QpWithinTolerance(qp_res', qp_gap')
  /\ (pc = "ls" /\ pc' # "hess") =>
       /\ pc' = "failed" /\ raised' = "ValueError"
       /\ UNCHANGED << x_k, s_k, pi_k, H, iteration, result >>

\* C2: the steps after _solve_qp run only on a res and a gap below
\* minor_tol; a res or gap not below it, or an exhausted line search, ends
\* the call in a failure with no result, the iterate, H and the iteration
\* count untouched, and the only thing that follows a failed call is a new
\* call of solve().
C2_Abort == []C2_AbortState /\ [][C2_AbortStep]_vars

\* a call ended by the asserts of _solve_qp with a gap that is not below minor_tol
C2_Witness ==
  /\ pc = "failed" /\ raised = "AssertionError"
  /\ RLt(qp_res, minor_tol(prob)) /\ ~RLt(qp_gap, minor_tol(prob))

\* C3: the loop body runs only for iteration < max_iter, nothing of the loop
\* runs after a convergence check that passed, and a call that returned did
\* so without a failure, either converged or with the iterations used up,
\* and with (x_k, f(x_k), c(x_k)) of the last iterate, which is x0 for
\* max_iter = 0.
C3_BoundedLoop ==
  /\ iteration <= max_iter
  /\ pc \in { "qp", "ls", "hess", "conv", "ret" } => iteration < max_iter
  /\ converged = "True" => pc \in { "ret", "returned" }
  /\ pc = "returned" =>
       /\ raised = None
       /\ converged = "True" \/ iteration = max_iter
       /\ Len(result) = 3
       /\ VEq(result[1], x_k)
       /\ REq(result[2], F(prob, x_k))
       /\ VEq(result[3], evaluate_constraints(prob, x_k))
       /\ max_iter = 0 => VEq(result[1], x0)

\* a call that stopped at its first iteration with iterations to spare
C3_Witness == pc = "returned" /\ converged = "True" /\ iteration + 1 < max_iter

\* C4: _check_convergence returns True exactly when dual feasibility,
\* primal feasibility, complementary slackness and stationarity hold with
\* tau_x = tol (1 + max|x|) and tau_pi = tol (1 + max|pi|).
C4_FourConditions ==
  (pc \in { "loop", "ret", "returned" } /\ converged # "None") =>
    (converged = "True" <=>
       /\ \A i \in 1..NumCs(prob) :
            ~RLt(pi_k[i],
                 RNeg(RMul(prob.tol,
                           RAdd(ROne, MaxOf([j \in 1..Len(pi_k) |-> RAbs(pi_k[j])])))))
       /\ \A i \in 1..NumCs(prob) :
            ~RLt(Value(prob, i, x_k),
                 RNeg(RMul(prob.tol,
                           RAdd(ROne, MaxOf([j \in 1..Len(x_k) |-> RAbs(x_k[j])])))))
       /\ \A i \in 1..NumCs(prob) :
            ~RLt(RMul(prob.tol, RAdd(ROne, MaxOf([j \in 1..Len(pi_k) |-> RAbs(pi_k[j])]))),
                 RMul(Value(prob, i, x_k), pi_k[i]))
       /\ \A i \in 1..prob.n :
            ~RLt(RMul(prob.tol, RAdd(ROne, MaxOf([j \in 1..Len(pi_k) |-> RAbs(pi_k[j])]))),
                 RAbs(Residual(Grad(prob, 0, x_k),
                               [j \in 1..NumCs(prob) |-> Grad(prob, j, x_k)],
                               pi_k, prob.n)[i])))

\* C5: after _update_hessian_approximation, H differs from what the call
\* found exactly when the primary test held or the corrected y has
\* y'delta >= 0.
C5_ModifiedIff ==
  hess.done =>
    ((hess.primary \/ (hess.corrected /\ hess.yTdelta.s >= 0)) <=> ~MEq(H, H_prev))

(***************************************************************************)
(* _update_rho as solve() leaves it: a and b of the call that _line_search *)
(* made, from the point it started from.                                   *)
(***************************************************************************)
\* cMinusS2
RhoA ==
  VHadamard(VSub(evaluate_constraints(prob, x_prev), s_prev),
            VSub(evaluate_constraints(prob, x_prev), s_prev))

\* rhs
RhoB ==
  RhoRhs(Grad(prob, 0, x_prev), H, VSub(evaluate_constraints(prob, x_prev), s_prev),
         pi_prev, VSub(x_hat, x_prev), VSub(pi_hat, pi_prev))

AfterUpdateRho == pc = "hess" \/ raised = "ValueError"

\* C6: rho is never negative in any component, and after _update_rho it is
\* b a_j / (a'a) in every component j if b > 0 and some a_j > 0, whatever it
\* was before, and what it was before otherwise.
C6_RhoReplaced ==
  /\ \A j \in 1..Len(rho) : rho[j].s >= 0
  /\ AfterUpdateRho =>
       IF RhoB.s > 0 /\ \E j \in 1..Len(RhoA) : RhoA[j].s > 0
       THEN \A j \in 1..Len(rho) : REq(RMul(rho[j], Dot(RhoA, RhoA)), RMul(RhoB, RhoA[j]))
       ELSE VEq(rho, rho_prev)

\* an update that made a component of rho smaller than it was
C6_Witness ==
  /\ AfterUpdateRho
  /\ RhoB.s > 0
  /\ \E j \in 1..Len(rho) : RLt(rho[j], rho_prev[j])

\* C7: for a with a positive entry and b > 0 the returned rho has
\* a'rho = b, no negative component, and a norm no larger than that of any
\* rho' >= 0 with a'rho' = b whose components are halves from 0 to AuxGrid / 2.
C7_MinimalNorm ==
  (pc = "aux_done" /\ args.b > 0 /\ \E i \in 1..AuxLen : args.a[i] > 0) =>
    /\ \A i \in 1..AuxLen : out[i].s >= 0
    /\ REq(Dot(AuxA, out), AuxB)
    /\ \A c \in [1..AuxLen -> 0..AuxGrid] :
         REq(Dot(AuxA, [i \in 1..AuxLen |-> Frac(c[i], 2)]), AuxB) =>
           RLe(Dot(out, out),
               Dot([i \in 1..AuxLen |-> Frac(c[i], 2)], [i \in 1..AuxLen |-> Frac(c[i], 2)]))

\* an a with a positive and a negative entry, so that a component is clipped
C7_Witness ==
  /\ pc = "aux_done" /\ args.b > 0
  /\ \E i \in 1..AuxLen : args.a[i] > 0
  /\ \E i \in 1..AuxLen : args.a[i] < 0 /\ out[i].s = 0

CacheIsAt(x) == cache.valid /\ VEq(cache.x, x)

\* C9: the cache, once filled, holds the gradient of f and of every
\* constraint at the point it names; that point is x_k where _solve_qp,
\* _update_rho and _check_convergence read the cache, and the point before
\* the step where _update_hessian_approximation takes its copies.
C9_CacheAtIterate ==
  /\ cache.valid =>
       /\ VEq(cache.f_grad_k, Grad(prob, 0, cache.x))
       /\ \A j \in 1..NumCs(prob) : VEq(cache.jacobian_k[j], Grad(prob, j, cache.x))
  /\ pc \in { "qp", "ls", "conv", "ret" } => CacheIsAt(x_k)
  /\ pc = "hess" => CacheIsAt(x_prev)
  /\ (pc = "conv" \/ raised = "ZeroDivisionError") =>
       hess.done /\ VEq(hess.snapshot_x, x_prev)

\* the cache refreshed for a second iterate of one call
C9_Witness == pc = "qp" /\ iteration = 1 /\ ~VEq(x_k, x0) /\ CacheIsAt(x_k)

\* C10: an update that is applied has y'delta # 0 and q'delta # 0.
C10_NonZeroDenominators ==
  (hess.done /\ hess.perform_update) => (hess.yTdelta.s # 0 /\ hess.qTdelta.s # 0)

====
